---- MODULE Spec2Model ----
(***************************************************************************)
(* Model of the file-analysis client/server of src/3: the length-prefixed  *)
(* wire codec (client.send_request / handler.read_request), the analyzer   *)
(* (handler.analyze_text), the upload store and result file, and the       *)
(* per-connection coroutine handler.handle_client run by asyncio's         *)
(* single-threaded cooperative event loop (core.run_server): a coroutine   *)
(* runs without interruption from one suspending await to the next, so one *)
(* action of the model is one such run, composed of the handler's steps.   *)
(*                                                                         *)
(* Text is a sequence of Unicode code points, wire data a sequence of      *)
(* bytes 0..255.  An f-string is the tuple of its literal pieces and       *)
(* formatted values.                                                       *)
(***************************************************************************)
EXTENDS Integers, Sequences, FiniteSets, TLC

\* ------------------------------------------------------------------ bounds
MaxConns == 2

MaxTime == 1

MaxSegment == 16

MaxFaults == 1

\* ------------------------------------------------------------- sentinels
None == "None"

\* --------------------------------------------------------- sequence helpers
Take(s, n) == SubSeq(s, 1, n)

Drop(s, n) == SubSeq(s, n + 1, Len(s))

Min(a, b) == IF a < b THEN a ELSE b

Card(S) == Cardinality(S)

\* ------------------------------------------------------ struct.pack/unpack
RECURSIVE Pack(_, _)
\* struct.pack("!I", n) for width 4, struct.pack("!Q", n) for width 8:
\* big-endian, most significant byte first.
Pack(n, width) ==
    IF width = 0 THEN <<>>
    ELSE Pack(n \div 256, width - 1) \o <<n % 256>>

\* Lengths of 2^24 and more are all represented by Huge: no stream of the
\* model ever holds that many bytes, so readexactly(n) behaves alike for
\* every such n.
Huge == 16777216

RECURSIVE Unpack(_)
\* struct.unpack("!I", b)[0] / struct.unpack("!Q", b)[0]
Unpack(b) ==
    IF Len(b) = 0 THEN 0
    ELSE LET hi == Unpack(Take(b, Len(b) - 1))
         IN  IF hi >= Huge \div 256 THEN Huge ELSE hi * 256 + b[Len(b)]

\* --------------------------------------------------------------- UTF-8
Replacement == 65533

IsCont(b) == b >= 128 /\ b <= 191

\* str.encode("utf-8") of one code point
EncodeCp(cp) ==
    IF cp < 128 THEN <<cp>>
    ELSE IF cp < 2048 THEN <<192 + (cp \div 64), 128 + (cp % 64)>>
    ELSE IF cp < 65536
         THEN <<224 + (cp \div 4096), 128 + ((cp \div 64) % 64), 128 + (cp % 64)>>
    ELSE <<240 + (cp \div 262144), 128 + ((cp \div 4096) % 64),
           128 + ((cp \div 64) % 64), 128 + (cp % 64)>>

RECURSIVE Utf8Encode(_)
Utf8Encode(text) ==
    IF Len(text) = 0 THEN <<>>
    ELSE EncodeCp(Head(text)) \o Utf8Encode(Tail(text))

\* Decoding of the first code point of a non-empty byte string:
\* [ok, cp, used].  An ill-formed sequence consumes its maximal valid prefix
\* (at least one byte), as CPython's decoder does.
SecondOk(b1, b2) ==
    /\ IsCont(b2)
    /\ (b1 = 224 => b2 >= 160)
    /\ (b1 = 237 => b2 <= 159)
    /\ (b1 = 240 => b2 >= 144)
    /\ (b1 = 244 => b2 <= 143)

DecodeFirst(b) ==
    LET b1 == b[1]
        n  == Len(b)
        bad(k) == [ok |-> FALSE, cp |-> Replacement, used |-> k]
    IN  IF b1 < 128 THEN [ok |-> TRUE, cp |-> b1, used |-> 1]
        ELSE IF b1 >= 194 /\ b1 <= 223 THEN
            IF n >= 2 /\ IsCont(b[2])
            THEN [ok |-> TRUE, cp |-> (b1 - 192) * 64 + (b[2] - 128), used |-> 2]
            ELSE bad(1)
        ELSE IF b1 >= 224 /\ b1 <= 239 THEN
            IF ~(n >= 2 /\ SecondOk(b1, b[2])) THEN bad(1)
            ELSE IF ~(n >= 3 /\ IsCont(b[3])) THEN bad(2)
            ELSE [ok |-> TRUE,
                  cp |-> (b1 - 224) * 4096 + (b[2] - 128) * 64 + (b[3] - 128),
                  used |-> 3]
        ELSE IF b1 >= 240 /\ b1 <= 244 THEN
            IF ~(n >= 2 /\ SecondOk(b1, b[2])) THEN bad(1)
            ELSE IF ~(n >= 3 /\ IsCont(b[3])) THEN bad(2)
            ELSE IF ~(n >= 4 /\ IsCont(b[4])) THEN bad(3)
            ELSE [ok |-> TRUE,
                  cp |-> (b1 - 240) * 262144 + (b[2] - 128) * 4096
                         + (b[3] - 128) * 64 + (b[4] - 128),
                  used |-> 4]
        ELSE bad(1)

RECURSIVE Utf8Valid(_)
Utf8Valid(b) ==
    IF Len(b) = 0 THEN TRUE
    ELSE LET d == DecodeFirst(b) IN d.ok /\ Utf8Valid(Drop(b, d.used))

RECURSIVE Utf8DecodeReplace(_)
\* bytes.decode("utf-8", errors="replace")
Utf8DecodeReplace(b) ==
    IF Len(b) = 0 THEN <<>>
    ELSE LET d == DecodeFirst(b) IN <<d.cp>> \o Utf8DecodeReplace(Drop(b, d.used))

\* bytes.decode("utf-8"): defined where Utf8Valid holds, else UnicodeDecodeError
Utf8Decode(b) == Utf8DecodeReplace(b)

\* ------------------------------------------------------------- analyze_text
\* str.isspace(): the code points str.split() treats as separators
Whitespace ==
    {9, 10, 11, 12, 13, 28, 29, 30, 31, 32, 133, 160, 5760, 8232, 8233,
     8239, 8287, 12288} \cup (8192..8202)

NL == 10

RECURSIVE CountOf(_, _)
\* str.count of a single character
CountOf(text, ch) ==
    IF Len(text) = 0 THEN 0
    ELSE (IF Head(text) = ch THEN 1 ELSE 0) + CountOf(Tail(text), ch)

\* variant: len(text.split(" ")), which separates at single spaces only
SplitLen_Spaces(text) == 1 + Card({i \in 1..Len(text) : text[i] = 32})

\* len(text.split()): a word starts at each non-space character that is
\* first or preceded by a space
SplitLen(text) ==
    Card({i \in 1..Len(text) :
            /\ text[i] \notin Whitespace
            /\ (i = 1 \/ text[i - 1] \in Whitespace)})

\* FileAnalyzer._analyze_single (src/2/app.py lines 71-73): the counts of a
\* file's content
analyze_single(content) ==
    [word_count |-> SplitLen(content), char_count |-> Len(content)]

\* variant: chars counts the characters that are not whitespace
analyze_text_NoSpaces(text) ==
    [lines |-> CountOf(text, NL)
               + (IF Len(text) > 0 /\ text[Len(text)] # NL THEN 1 ELSE 0),
     words |-> SplitLen(text),
     chars |-> Card({i \in 1..Len(text) : text[i] \notin Whitespace})]

\* variant: an unterminated last line is not counted
analyze_text_NoFinalLine(text) ==
    [lines |-> CountOf(text, NL), words |-> SplitLen(text), chars |-> Len(text)]

analyze_text(text) ==
    [lines |-> CountOf(text, NL)
               + (IF Len(text) > 0 /\ text[Len(text)] # NL THEN 1 ELSE 0),
     words |-> SplitLen(text),
     chars |-> Len(text)]

\* ------------------------------------------------------------ str(int)
RECURSIVE Digits(_)
\* the decimal digits of a non-negative integer, as code points
Digits(n) == IF n < 10 THEN <<48 + n>> ELSE Digits(n \div 10) \o <<48 + (n % 10)>>

\* ------------------------------------------------------- os.path (posix)
Sep == 47

ExtSep == 46

\* str.rfind of one character, 1-based; 0 when absent
RFind(p, ch) ==
    LET S == {i \in 1..Len(p) : p[i] = ch}
    IN  IF S = {} THEN 0 ELSE CHOOSE i \in S : \A j \in S : j <= i

\* os.path.splitext: the extension starts at the last dot of the last path
\* component, unless only dots precede it in that component
splitext(p) ==
    LET sepIndex == RFind(p, Sep)
        dotIndex == RFind(p, ExtSep)
    IN  IF /\ dotIndex > sepIndex
           /\ \E k \in (sepIndex + 1)..(dotIndex - 1) : p[k] # ExtSep
        THEN [base |-> Take(p, dotIndex - 1), ext |-> Drop(p, dotIndex - 1)]
        ELSE [base |-> p, ext |-> <<>>]

\* os.path.join(a, b): an absolute b discards a
join(a, b) ==
    IF Len(b) > 0 /\ b[1] = Sep THEN b
    ELSE IF Len(a) = 0 \/ a[Len(a)] = Sep THEN a \o b
    ELSE a \o <<Sep>> \o b

\* os.path.dirname
dirname(p) ==
    LET i == RFind(p, Sep)
        head == Take(p, i)
    IN  IF i = 0 THEN <<>>
        ELSE IF \A k \in 1..i : p[k] = Sep THEN head
        ELSE LET S == {k \in 1..i : p[k] # Sep}
                 last == CHOOSE k \in S : \A j \in S : j <= k
             IN  Take(p, last)

\* variant: the stored name is the client's file name, without the timestamp
saved_filename_Plain(filename, timestamp) == filename

\* f"{base}_{timestamp}{ext}" with timestamp = int(time.time() * 1000)
saved_filename(filename, timestamp) ==
    LET parts == splitext(filename)
    IN  parts.base \o <<95>> \o Digits(timestamp) \o parts.ext

\* --upload-dir default 'uploads'
UploadDir == <<117, 112, 108, 111, 97, 100, 115>>

\* ------------------------------------------------------ formatted texts
\* str() of the function object saved_filename, which is what the f-string
\* of the result line formats: "<function saved_filename at 0x7f0000000000>"
FunctionRepr ==
    <<60, 102, 117, 110, 99, 116, 105, 111, 110, 32, 115, 97, 118, 101, 100,
      95, 102, 105, 108, 101, 110, 97, 109, 101, 32, 97, 116, 32, 48, 120,
      55, 102, 48, 48, 48, 48, 48, 48, 48, 48, 48, 48, 62>>

\* ": lines="
LitLines == <<58, 32, 108, 105, 110, 101, 115, 61>>

\* ", words="
LitWords == <<44, 32, 119, 111, 114, 100, 115, 61>>

\* ", characters="
LitCharacters == <<44, 32, 99, 104, 97, 114, 97, 99, 116, 101, 114, 115, 61>>

\* the text "<name>: lines=<L>, words=<W>, characters=<C>\n"
FormatResultLine(name, counts) ==
    name \o LitLines \o Digits(counts.lines) \o LitWords \o Digits(counts.words)
         \o LitCharacters \o Digits(counts.chars) \o <<NL>>

\* result_line of handle_client: the name it formats is the function object
ResultLine(stored_name, counts) == FormatResultLine(FunctionRepr, counts)

\* "File name: "
LitFileName == <<70, 105, 108, 101, 32, 110, 97, 109, 101, 58, 32>>

\* "\nLines: "
LitRespLines == <<10, 76, 105, 110, 101, 115, 58, 32>>

\* ", Words: "
LitRespWords == <<44, 32, 87, 111, 114, 100, 115, 58, 32>>

\* ", Chars: "
LitRespChars == <<44, 32, 67, 104, 97, 114, 115, 58, 32>>

\* variant: the response with the word and character counts exchanged
Response_Swapped(filename, counts) ==
    LitFileName \o filename \o LitRespLines \o Digits(counts.lines)
        \o LitRespWords \o Digits(counts.chars)
        \o LitRespChars \o Digits(counts.words) \o <<NL>>

\* response of handle_client
Response(filename, counts) ==
    LitFileName \o filename \o LitRespLines \o Digits(counts.lines)
        \o LitRespWords \o Digits(counts.words)
        \o LitRespChars \o Digits(counts.chars) \o <<NL>>

\* "Server error: "
LitServerError == <<83, 101, 114, 118, 101, 114, 32, 101, 114, 114, 111, 114, 58, 32>>

\* str(IncompleteReadError): "<n> bytes read on a total of <m> expected bytes"
IncompleteReadMsg(got, expected) ==
    Digits(got)
    \o <<32, 98, 121, 116, 101, 115, 32, 114, 101, 97, 100, 32, 111, 110, 32,
         97, 32, 116, 111, 116, 97, 108, 32, 111, 102, 32>>
    \o Digits(expected)
    \o <<32, 101, 120, 112, 101, 99, 116, 101, 100, 32, 98, 121, 116, 101, 115>>

\* str(ConnectionResetError('Connection lost'))
ConnectionLostMsg ==
    <<67, 111, 110, 110, 101, 99, 116, 105, 111, 110, 32, 108, 111, 115, 116>>

\* f"Server error: {e}"
ErrorResponse(msg) == LitServerError \o msg

RECURSIVE SplitLines(_)
\* file.readlines(): the file's text cut after each newline
SplitLines(text) ==
    LET S == {i \in 1..Len(text) : text[i] = NL}
    IN  IF Len(text) = 0 THEN <<>>
        ELSE IF S = {} THEN <<text>>
        ELSE LET i == CHOOSE k \in S : \A j \in S : k <= j
             IN  <<Take(text, i)>> \o SplitLines(Drop(text, i))

IsPrefix(p, s) == Len(p) <= Len(s) /\ Take(s, Len(p)) = p

\* ------------------------------------------------------------ wire codec
\* variant: name_len is the number of characters of the file name
send_request_CharLen(filename, file_content) ==
    Pack(Len(filename), 4) \o Utf8Encode(filename)
        \o Pack(Len(file_content), 8) \o file_content

\* the bytes client.send_request writes for (filename, file_content)
send_request(filename, file_content) ==
    Pack(Len(Utf8Encode(filename)), 4) \o Utf8Encode(filename)
        \o Pack(Len(file_content), 8) \o file_content

\* ---------------------------------------------------------------- clients
Conns == 1..MaxConns

\* "a.txt"
NameA == <<97, 46, 116, 120, 116>>

\* "a b\nc" as bytes
ContentA == <<97, 32, 98, 10, 99>>

\* "x y z w\n" as bytes
ContentB == <<120, 32, 121, 32, 122, 32, 119, 10>>

FrameA == send_request(NameA, ContentA)

\* What a peer does on its connection: the bytes it sends, and for a peer
\* that runs client.send_file the file it sends.
Scripts ==
    [valid     |-> [bytes |-> FrameA, filename |-> NameA, content |-> ContentA],
     valid2    |-> [bytes |-> send_request(NameA, ContentB),
                    filename |-> NameA, content |-> ContentB],
     \* test_server_continues_after_error: b"trash", then close
     trash     |-> [bytes |-> <<116, 114, 97, 115, 104>>,
                    filename |-> <<>>, content |-> <<>>],
     \* closes inside name_len
     cut_len   |-> [bytes |-> Take(FrameA, 2),
                    filename |-> <<>>, content |-> <<>>],
     \* closes inside content_len
     cut_clen  |-> [bytes |-> Take(FrameA, 12),
                    filename |-> <<>>, content |-> <<>>],
     \* closes inside content: fewer bytes than the declared content_len
     cut_body  |-> [bytes |-> Take(FrameA, Len(FrameA) - 2),
                    filename |-> <<>>, content |-> <<>>],
     \* declares content_len = 2^64 - 1
     oversized |-> [bytes |-> Pack(Len(NameA), 4) \o NameA
                              \o <<255, 255, 255, 255, 255, 255, 255, 255>>
                              \o <<97>>,
                    filename |-> <<>>, content |-> <<>>],
     \* a file name that is not UTF-8
     badname   |-> [bytes |-> Pack(1, 4) \o <<255>> \o Pack(0, 8),
                    filename |-> <<>>, content |-> <<>>]]

ScriptIds ==
    {"valid", "valid2", "trash", "cut_len", "cut_clen", "cut_body",
     "oversized", "badname"}

\* the scripts of peers that follow the protocol (client.send_file)
WellformedIds == {"valid", "valid2"}

\* the scripts of peers that close after their last byte
EofIds == {"trash", "cut_len", "cut_clen", "cut_body", "oversized"}

\* ------------------------------------------------------------------ state
VARIABLES
    cl,            \* each connection: "none", "open", "closed" (the peer's end of
                   \* stream was received), "gone" (torn down by the server)
    script,        \* the script the peer follows
    left,          \* bytes the peer has still to send
    inbuf,         \* bytes received and not yet consumed (StreamReader buffer)
    lost,          \* the connection was reset by the peer before the server closed it
    sent,          \* bytes the server put on the connection
    pc,            \* where each handle_client coroutine is suspended
    peername,      \* writer.get_extra_info("peername")
    name_len, filename, content_len, file_content,   \* locals of read_request
    saved_path, counts, exc,                         \* locals of handle_client
    written,       \* the arguments of the writer.write calls, in order
    closed,        \* writer.close() was called
    outcome,       \* how the handler's try statement ended
    hist,          \* the steps the handler has completed, in order
    before,        \* the connections whose handler had ended when this one
                   \* was accepted
    files,         \* the file system: a set of [path, content], one per path
    resultFile,    \* text of the result file
    now,           \* the latest int(time.time() * 1000) that was read
    call           \* a function called on its own, outside a connection: its
                   \* name, its arguments and what it has returned

vars == <<cl, script, left, inbuf, lost, sent, pc, peername,
          name_len, filename, content_len, file_content, saved_path, counts,
          exc, written, closed, outcome, hist, before, files, resultFile,
          now, call>>

Addr == "127.0.0.1:50000"

\* directories that exist: the upload directory (created by run_server), its
\* parent under the name "uploads/.." and /
ExistingDirs == {UploadDir, UploadDir \o <<Sep, 46, 46>>, <<Sep>>}

\* no function is called on its own
NoCall == [fn |-> "none"]

\* the server after run_server has started it: no connection yet, an empty
\* upload directory and an empty result file
ServerInit ==
    /\ cl = [c \in Conns |-> "none"]
    /\ script = [c \in Conns |-> None]
    /\ left = [c \in Conns |-> <<>>]
    /\ inbuf = [c \in Conns |-> <<>>]
    /\ lost = [c \in Conns |-> FALSE]
    /\ sent = [c \in Conns |-> <<>>]
    /\ pc = [c \in Conns |-> "idle"]
    /\ peername = [c \in Conns |-> None]
    /\ name_len = [c \in Conns |-> 0]
    /\ filename = [c \in Conns |-> <<>>]
    /\ content_len = [c \in Conns |-> 0]
    /\ file_content = [c \in Conns |-> <<>>]
    /\ saved_path = [c \in Conns |-> <<>>]
    /\ counts = [c \in Conns |-> [lines |-> 0, words |-> 0, chars |-> 0]]
    /\ exc = [c \in Conns |-> <<>>]
    /\ written = [c \in Conns |-> <<>>]
    /\ closed = [c \in Conns |-> FALSE]
    /\ outcome = [c \in Conns |-> None]
    /\ hist = [c \in Conns |-> <<>>]
    /\ before = [c \in Conns |-> {}]
    /\ files = {}
    /\ resultFile = <<>>
    /\ now = 0

Init == ServerInit /\ call = NoCall

\* ------------------------------------------------------------ the faults
\* the connections whose peer does not follow the protocol
BadPeers == {c \in Conns : script[c] \in ScriptIds \ WellformedIds}

\* the connections whose handler had an open() fail
IOFaults ==
    {c \in Conns : script[c] \in WellformedIds /\ outcome[c] = "unexpected"}

\* A behaviour has at most MaxFaults connections with a fault: an
\* ill-behaved peer, a reset by the peer, a failed open().
Faulty == BadPeers \cup {c \in Conns : lost[c]} \cup IOFaults

MayFail(c) == c \in Faulty \/ Card(Faulty) < MaxFaults

\* ------------------------------------------------------------ the loop
ReadPoints == {"read_name_len", "read_name", "read_content_len", "read_content"}

\* ------------------------------------------------------------ the peers

\* Connections are numbered in the order they are made.
ClientConnect(c, s) ==
    /\ cl[c] = "none"
    /\ \A d \in Conns : d < c => cl[d] # "none"
    /\ s \in WellformedIds \/ MayFail(c)
    /\ cl' = [cl EXCEPT ![c] = "open"]
    /\ script' = [script EXCEPT ![c] = s]
    /\ left' = [left EXCEPT ![c] = Scripts[s].bytes]
    /\ UNCHANGED <<inbuf, lost, sent, pc, peername, name_len, filename,
                   content_len, file_content, saved_path, counts, exc,
                   written, closed, outcome, hist, before, files, resultFile,
                   now, call>>

\* One TCP segment of at most MaxSegment bytes arrives and the loop feeds it
\* to the connection's StreamReader.
ClientSend(c) ==
    /\ cl[c] = "open"
    /\ ~lost[c]
    /\ Len(left[c]) > 0
    /\ LET k == Min(MaxSegment, Len(left[c]))
       IN  /\ inbuf' = [inbuf EXCEPT ![c] = @ \o Take(left[c], k)]
           /\ left' = [left EXCEPT ![c] = Drop(@, k)]
    /\ UNCHANGED <<cl, script, lost, sent, pc, peername, name_len, filename,
                   content_len, file_content, saved_path, counts, exc,
                   written, closed, outcome, hist, before, files, resultFile,
                   now, call>>

\* The peer closes its side after its last byte.  A peer that first waits for
\* the response (client.send_file, lines 51-60) closes when the handler has
\* written it, which is when the handler no longer reads.
ClientClose(c) ==
    /\ cl[c] = "open"
    /\ ~lost[c]
    /\ Len(left[c]) = 0
    /\ script[c] \in EofIds
    /\ cl' = [cl EXCEPT ![c] = "closed"]
    /\ UNCHANGED <<script, left, inbuf, lost, sent, pc, peername, name_len,
                   filename, content_len, file_content, saved_path, counts,
                   exc, written, closed, outcome, hist, before, files, resultFile,
                   now, call>>

\* The peer may abort the connection (RST) at any moment.  The server sees
\* it only where it looks at the connection, so the abort is decided there:
\* whether a reset may be seen on connection c now.
MayReset(c) == ~lost[c] /\ MayFail(c)

\* -------------------------------------------------------------- the server
\* ----------------------------------------------------- handle_client steps
\* The state a handler works on: its connection, its locals and the stores.
\* susp is set when the coroutine suspends or ends.
Load(c) ==
    [cl |-> cl[c], left |-> left[c], inbuf |-> inbuf[c], lost |-> lost[c],
     sent |-> sent[c], pc |-> pc[c], peername |-> peername[c],
     name_len |-> name_len[c], filename |-> filename[c],
     content_len |-> content_len[c], file_content |-> file_content[c],
     saved_path |-> saved_path[c], counts |-> counts[c], exc |-> exc[c],
     written |-> written[c], closed |-> closed[c], outcome |-> outcome[c],
     hist |-> hist[c], files |-> files, resultFile |-> resultFile,
     now |-> now, susp |-> FALSE]

Record(h, step) == [h EXCEPT !.hist = Append(@, step)]

\* The end of a connection on the server: the transport is closed, its
\* buffer is dropped and nothing more is received from the peer; the locals
\* of read_request are gone with its frame.
Teardown(h) ==
    [h EXCEPT !.cl = "gone", !.left = <<>>, !.inbuf = <<>>, !.name_len = 0,
              !.content_len = 0, !.file_content = <<>>]

\* an exception leaves handle_client
Propagate(h, msg) ==
    [Teardown(h) EXCEPT !.pc = "crashed", !.exc = msg, !.susp = TRUE]

\* "TypeError"
TypeErrorMsg == <<84, 121, 112, 101, 69, 114, 114, 111, 114>>

\* "UnicodeDecodeError"
UnicodeErrorMsg ==
    <<85, 110, 105, 99, 111, 100, 101, 68, 101, 99, 111, 100, 101, 69, 114,
      114, 111, 114>>

\* "OSError"
OSErrorMsg == <<79, 83, 69, 114, 114, 111, 114>>

\* handle_client lines 44-46, before the try statement:
\* ':'.join(map(str, peername)) raises TypeError when peername is None.
HandlerStart(h) ==
    IF h.peername = None
    THEN Propagate(Record(h, "Accepted"), TypeErrorMsg)
    ELSE [Record(h, "Accepted") EXCEPT !.pc = "read_name_len"]

\* variant: the response is written before the result line is appended
AfterStep_RespondFirst(step) ==
    CASE step = "read_content" -> "save"
      [] step = "save" -> "analyze"
      [] step = "analyze" -> "respond"
      [] step = "respond" -> "append"
      [] step = "append" -> "drain"
      [] step = "drain" -> "finally"

\* The order of the statements of handle_client's try block (lines 49-76):
\* read_request, save the upload, analyze, append the result, respond.
AfterStep(step) ==
    CASE step = "read_content" -> "save"
      [] step = "save" -> "analyze"
      [] step = "analyze" -> "append"
      [] step = "append" -> "respond"
      [] step = "respond" -> "drain"
      [] step = "drain" -> "finally"

\* StreamReader.readexactly(n): what the call does, r telling whether the
\* connection is seen lost by now
ReadOutcome(h, n, r) ==
    IF h.lost \/ r THEN "reset"
    ELSE IF Len(h.inbuf) >= n THEN "ok"
    ELSE IF h.cl = "closed" THEN "incomplete"
    ELSE "wait"

\* variant: a read that hits the end of the stream returns the bytes it has,
\* as StreamReader.read(n) would, and they are taken for the file content
ReadNoData_Partial(h, n, r) ==
    CASE ReadOutcome(h, n, r) = "wait" -> [h EXCEPT !.susp = TRUE]
      [] ReadOutcome(h, n, r) = "incomplete" ->
            Record([h EXCEPT !.pc = "save", !.file_content = h.inbuf,
                             !.inbuf = <<>>],
                   "IncompleteRead")
      [] ReadOutcome(h, n, r) = "reset" ->
            [h EXCEPT !.pc = "except_recv", !.exc = ConnectionLostMsg,
                      !.lost = TRUE]

\* readexactly(n) not returning data: suspend, or raise IncompleteReadError
\* or ConnectionResetError into the handler's first except clause.
ReadNoData(h, n, r) ==
    CASE ReadOutcome(h, n, r) = "wait" -> [h EXCEPT !.susp = TRUE]
      [] ReadOutcome(h, n, r) = "incomplete" ->
            Record([h EXCEPT !.pc = "except_recv",
                             !.exc = IncompleteReadMsg(Len(h.inbuf), n),
                             !.inbuf = <<>>],
                   "IncompleteRead")
      [] ReadOutcome(h, n, r) = "reset" ->
            [h EXCEPT !.pc = "except_recv", !.exc = ConnectionLostMsg,
                      !.lost = TRUE]

\* read_request lines 10-11
ReadNameLen(h, r) ==
    IF ReadOutcome(h, 4, r) = "ok"
    THEN [h EXCEPT !.name_len = Unpack(Take(h.inbuf, 4)),
                   !.inbuf = Drop(@, 4),
                   !.pc = "read_name"]
    ELSE ReadNoData(h, 4, r)

\* read_request lines 14-15; an undecodable name raises UnicodeDecodeError,
\* which the handler's second except clause catches
ReadName(h, r) ==
    IF ReadOutcome(h, h.name_len, r) = "ok"
    THEN LET filename_bytes == Take(h.inbuf, h.name_len)
             rest == [h EXCEPT !.inbuf = Drop(@, h.name_len)]
         IN  IF Utf8Valid(filename_bytes)
             THEN [rest EXCEPT !.filename = Utf8Decode(filename_bytes),
                               !.pc = "read_content_len"]
             ELSE [rest EXCEPT !.pc = "except_other", !.exc = UnicodeErrorMsg]
    ELSE ReadNoData(h, h.name_len, r)

\* read_request lines 18-19
ReadContentLen(h, r) ==
    IF ReadOutcome(h, 8, r) = "ok"
    THEN [h EXCEPT !.content_len = Unpack(Take(h.inbuf, 8)),
                   !.inbuf = Drop(@, 8),
                   !.pc = "read_content"]
    ELSE ReadNoData(h, 8, r)

\* read_request lines 22-24
ReadContent(h, r) ==
    IF ReadOutcome(h, h.content_len, r) = "ok"
    THEN Record([h EXCEPT !.file_content = Take(h.inbuf, h.content_len),
                          !.inbuf = Drop(@, h.content_len),
                          !.pc = AfterStep("read_content")],
                "Read")
    ELSE ReadNoData(h, h.content_len, r)

\* open(path, "wb") / open(path, "a") succeeds only in an existing directory
CanOpen(path) == dirname(path) \in ExistingDirs

\* the file system after open(path, "wb").write(content)
WriteFile(fs, path, content) ==
    {f \in fs : f.path # path} \cup {[path |-> path, content |-> content]}

\* variant: the file is opened with mode "w", which truncates it
AppendFile_Truncate(text, line) == line

\* the text of a file after open(file, "a").write(line)
AppendFile(text, line) == text \o line

\* handle_client lines 51-54; the write can fail with OSError.  The clock
\* read by saved_filename is timestamp.
SaveUpload(h, timestamp, io_ok) ==
    LET path == join(UploadDir, saved_filename(h.filename, timestamp))
    IN  IF io_ok /\ CanOpen(path)
        THEN Record([h EXCEPT !.now = timestamp,
                              !.files = WriteFile(h.files, path, h.file_content),
                              !.saved_path = path,
                              !.pc = AfterStep("save")],
                    "Saved")
        ELSE [h EXCEPT !.now = timestamp, !.pc = "except_other",
                       !.exc = OSErrorMsg]

\* handle_client lines 56-57
Analyze(h) ==
    Record([h EXCEPT !.counts = analyze_text(Utf8DecodeReplace(h.file_content)),
                     !.pc = AfterStep("analyze")],
           "Analyzed")

\* variant: the result line is written twice
AppendResult_Twice(h, io_ok) ==
    LET stored == Drop(h.saved_path, Len(UploadDir) + 1)
        result_line == ResultLine(stored, h.counts)
    IN  IF io_ok
        THEN Record(Record([h EXCEPT !.resultFile =
                                         AppendFile(AppendFile(@, result_line),
                                                    result_line),
                                     !.pc = AfterStep("append")],
                           "Appended"),
                    "Appended")
        ELSE [h EXCEPT !.pc = "except_other", !.exc = OSErrorMsg]

\* handle_client lines 59-66; the append can fail with OSError
AppendResult(h, io_ok) ==
    LET stored == Drop(h.saved_path, Len(UploadDir) + 1)
        result_line == ResultLine(stored, h.counts)
    IN  IF io_ok
        THEN Record([h EXCEPT !.resultFile = AppendFile(@, result_line),
                              !.pc = AfterStep("append")],
                    "Appended")
        ELSE [h EXCEPT !.pc = "except_other", !.exc = OSErrorMsg]

\* writer.write(data): the transport drops what is written to a lost connection
WriterWrite(h, data) ==
    [h EXCEPT !.written = Append(@, data),
              !.sent = IF h.lost THEN @ ELSE @ \o data]

\* handle_client lines 68-73
Respond(h) ==
    Record([WriterWrite(h, Response(h.filename, h.counts))
                EXCEPT !.pc = AfterStep("respond")],
           "Responded")

\* handle_client lines 74-76: writer.drain() returns, or raises
\* ConnectionResetError on a lost connection
Drain(h, r) ==
    IF h.lost \/ r
    THEN [h EXCEPT !.pc = "except_recv", !.exc = ConnectionLostMsg,
                   !.lost = TRUE]
    ELSE Record([h EXCEPT !.pc = AfterStep("drain"), !.outcome = "success"],
                "Processed")

\* variant: the first except clause writes no error response
ExceptRecv_Silent(h) ==
    Record([h EXCEPT !.pc = "err_drain"], "Errored")

\* handle_client lines 78-83: first except clause, error response
ExceptRecv(h) ==
    Record([WriterWrite(h, ErrorResponse(h.exc)) EXCEPT !.pc = "err_drain"],
           "Errored")

\* handle_client lines 84-86: drain inside try/except: pass; the
\* ConnectionResetError of a lost connection is swallowed
ErrDrain(h, r) ==
    IF h.lost \/ r
    THEN Record([h EXCEPT !.pc = "finally", !.outcome = "framing",
                          !.lost = TRUE],
                "DrainFailed")
    ELSE [h EXCEPT !.pc = "finally", !.outcome = "framing"]

\* handle_client lines 88-89: second except clause, log only
ExceptOther(h) ==
    Record([h EXCEPT !.pc = "finally", !.outcome = "unexpected"], "Errored")

\* handle_client lines 91-93: writer.close(), then suspend in wait_closed()
Finally(h, r) ==
    Record([Teardown(h) EXCEPT !.closed = TRUE, !.pc = "wait_closed",
                               !.lost = h.lost \/ r, !.susp = TRUE],
           "Closed")

\* the step of handle_client at h.pc, under the environment's choices ch
OneStep(h, ch) ==
    CASE h.pc = "start" -> HandlerStart(h)
      [] h.pc = "read_name_len" -> ReadNameLen(h, ch.reset = "read")
      [] h.pc = "read_name" -> ReadName(h, ch.reset = "read")
      [] h.pc = "read_content_len" -> ReadContentLen(h, ch.reset = "read")
      [] h.pc = "read_content" -> ReadContent(h, ch.reset = "read")
      [] h.pc = "save" -> SaveUpload(h, ch.timestamp, ch.io_save)
      [] h.pc = "analyze" -> Analyze(h)
      [] h.pc = "append" -> AppendResult(h, ch.io_append)
      [] h.pc = "respond" -> Respond(h)
      [] h.pc = "drain" -> Drain(h, ch.reset = "drain")
      [] h.pc = "except_recv" -> ExceptRecv(h)
      [] h.pc = "err_drain" -> ErrDrain(h, ch.reset = "drain")
      [] h.pc = "except_other" -> ExceptOther(h)
      [] h.pc = "finally" -> Finally(h, ch.reset = "close")

RECURSIVE RunToAwait(_, _)
\* the handler's steps up to the await at which it suspends
RunToAwait(h, ch) ==
    IF h.susp THEN h ELSE RunToAwait(OneStep(h, ch), ch)

\* whether an open() succeeds
IOChoices(c) == IF MayFail(c) THEN {TRUE, FALSE} ELSE {TRUE}

\* The choices the environment makes during one run of a handler: where a
\* reset of the connection is seen ("no", "read", "drain", "close"), the clock
\* and whether the two open() calls succeed.
Choices(c) ==
    [reset : {"no"} \cup {x \in {"read", "drain", "close"} : MayReset(c)},
     timestamp : now..MaxTime,
     io_save : IOChoices(c),
     io_append : IOChoices(c)]

\* the state after a run of the handler of connection c that ends in h
Store(c, h) ==
    /\ cl' = [cl EXCEPT ![c] = h.cl]
    /\ left' = [left EXCEPT ![c] = h.left]
    /\ inbuf' = [inbuf EXCEPT ![c] = h.inbuf]
    /\ lost' = [lost EXCEPT ![c] = h.lost]
    /\ sent' = [sent EXCEPT ![c] = h.sent]
    /\ pc' = [pc EXCEPT ![c] = h.pc]
    /\ peername' = [peername EXCEPT ![c] = h.peername]
    /\ name_len' = [name_len EXCEPT ![c] = h.name_len]
    /\ filename' = [filename EXCEPT ![c] = h.filename]
    /\ content_len' = [content_len EXCEPT ![c] = h.content_len]
    /\ file_content' = [file_content EXCEPT ![c] = h.file_content]
    /\ saved_path' = [saved_path EXCEPT ![c] = h.saved_path]
    /\ counts' = [counts EXCEPT ![c] = h.counts]
    /\ exc' = [exc EXCEPT ![c] = h.exc]
    /\ written' = [written EXCEPT ![c] = h.written]
    /\ closed' = [closed EXCEPT ![c] = h.closed]
    /\ outcome' = [outcome EXCEPT ![c] = h.outcome]
    /\ hist' = [hist EXCEPT ![c] = h.hist]
    /\ files' = h.files
    /\ resultFile' = h.resultFile
    /\ now' = h.now
    /\ UNCHANGED <<script, call>>

\* variant: a connection is served when the handlers before it have ended
CanAccept_Serial(c) ==
    /\ pc[c] = "idle"
    /\ cl[c] # "none"
    /\ \A d \in Conns : d < c => pc[d] \in {"done", "crashed"}

\* Connection c is the next of the backlog: it was made, it has no handler
\* yet and the connections made before it have theirs.
CanAccept(c) ==
    /\ pc[c] = "idle"
    /\ cl[c] # "none"
    /\ \A d \in Conns : d < c => pc[d] # "idle"

\* asyncio.start_server (core.run_server) accepts the next connection of the
\* backlog and starts client_connected -> handle_client on it, which runs to
\* its first suspending await.  A connection that was reset before it is
\* accepted has no peer name.
Accept(c) ==
    /\ CanAccept(c)
    /\ before' = [before EXCEPT ![c] = {d \in Conns : pc[d] \in {"done", "crashed"}}]
    /\ \/ \E h \in {RunToAwait([Load(c) EXCEPT !.pc = "start", !.peername = Addr], ch) :
                       ch \in Choices(c)} :
            Store(c, h)
       \/ /\ MayReset(c)
          /\ Store(c, RunToAwait([Load(c) EXCEPT !.pc = "start", !.lost = TRUE,
                                                 !.peername = None],
                                 CHOOSE ch \in Choices(c) : TRUE))

\* The event loop resumes the handler of connection c where it is suspended
\* in readexactly; it runs to its next suspending await (a readexactly
\* without enough data, or wait_closed) or to the exception that ends it.
Resume(c) ==
    /\ pc[c] \in ReadPoints
    /\ \E h \in {RunToAwait(Load(c), ch) : ch \in Choices(c)} :
         /\ h.pc # pc[c]
         /\ Store(c, h)
    /\ UNCHANGED before

\* handle_client lines 93-94: wait_closed() returns, or raises the error the
\* connection was lost with; nothing catches it
WaitClosed(c) ==
    /\ pc[c] = "wait_closed"
    /\ IF lost[c]
       THEN /\ pc' = [pc EXCEPT ![c] = "crashed"]
            /\ exc' = [exc EXCEPT ![c] = ConnectionLostMsg]
       ELSE /\ pc' = [pc EXCEPT ![c] = "done"]
            /\ UNCHANGED exc
    /\ UNCHANGED <<cl, script, left, inbuf, lost, sent, peername, name_len,
                   filename, content_len, file_content, saved_path, counts,
                   written, closed, outcome, hist, before, files, resultFile,
                   now, call>>

Next ==
    \/ \E c \in Conns, s \in ScriptIds : ClientConnect(c, s)
    \/ \E c \in Conns : ClientSend(c)
    \/ \E c \in Conns : ClientClose(c)
    \/ \E c \in Conns : Accept(c)
    \/ \E c \in Conns : Resume(c)
    \/ \E c \in Conns : WaitClosed(c)

Spec == Init /\ [][Next]_vars

\* The handler of c is resumed because the data its readexactly waits for
\* has arrived (and not because the connection was lost).
ResumeReady(c) == Resume(c) /\ lost'[c] = lost[c]

\* The event loop runs every callback that is ready: a connection of the
\* backlog is accepted, a handler whose data has arrived is resumed, a
\* wait_closed() whose transport has closed returns.  Nothing is assumed of
\* the peers: a peer may stop sending at any point.
\* the data the suspended readexactly of c waits for has arrived
CanResume(c) ==
    /\ pc[c] \in ReadPoints
    /\ \E h \in {RunToAwait(Load(c), ch) : ch \in Choices(c)} :
         h.pc # pc[c] /\ h.lost = lost[c]

\* Weak fairness of Accept(c), ResumeReady(c) and WaitClosed(c), the first
\* two written out with their enabling conditions CanAccept and CanResume.
LoopFairness ==
    \A c \in Conns :
        /\ []<>(~CanAccept(c)) \/ []<><<Accept(c)>>_vars
        /\ []<>(~CanResume(c)) \/ []<><<ResumeReady(c)>>_vars
        /\ WF_vars(WaitClosed(c))

SpecFair == Init /\ [][Next]_vars /\ LoopFairness

\* ------------------------------------------------ functions on their own
\* The functions of the program that compute a value from their arguments
\* are also called on their own, on arguments drawn from bounded sets; the
\* server takes no step meanwhile.
MaxName == 2

MaxContent == 2

\* the sequences over S of length at most n
SeqsUpTo(S, n) == UNION {[1..k -> S] : k \in 0..n}

\* characters of file names: "a", ".", "/", U+00E9, U+20AC, U+1F600, whose
\* UTF-8 encodings have 1, 1, 1, 2, 3 and 4 bytes
NameChars == {97, 46, 47, 233, 8364, 128512}

\* bytes of file contents: NUL, newline, "a" and a byte that is not UTF-8
ContentBytes == {0, 10, 97, 255}

serverVars ==
    <<cl, script, left, inbuf, lost, sent, pc, peername, name_len, filename,
      content_len, file_content, saved_path, counts, exc, written, closed,
      outcome, hist, before, files, resultFile, now>>

\* an environment that makes no connection fail
NoFault ==
    [reset |-> "no", timestamp |-> 0, io_save |-> TRUE, io_append |-> TRUE]

RECURSIVE ReadSteps(_)
\* the steps of read_request from where h stands
ReadSteps(h) ==
    IF h.pc \in ReadPoints /\ ~h.susp THEN ReadSteps(OneStep(h, NoFault)) ELSE h

\* read_request (handler.py lines 8-24) on a reader that was fed stream and
\* then the end of the stream: what it returns, or that it raised
read_request(stream) ==
    LET h == ReadSteps([Load(1) EXCEPT !.pc = "read_name_len",
                                       !.inbuf = stream, !.cl = "closed"])
    IN  [raised |-> h.pc # AfterStep("read_content"),
         filename |-> h.filename, content |-> h.file_content,
         name_len |-> h.name_len, content_len |-> h.content_len,
         unread |-> h.inbuf]

\* send_request(writer, filename, file_content) followed by
\* read_request(reader) on what was written
CodecCalls ==
    [fn : {"codec"}, stage : {"called"},
     filename : SeqsUpTo(NameChars, MaxName),
     file_content : SeqsUpTo(ContentBytes, MaxContent)]

\* client.send_request writes the frame
CallSendRequest ==
    /\ call.fn = "codec" /\ call.stage = "called"
    /\ call' = [fn |-> "codec", stage |-> "sent",
                filename |-> call.filename, file_content |-> call.file_content,
                stream |-> send_request(call.filename, call.file_content)]
    /\ UNCHANGED serverVars

\* handler.read_request reads the frame
CallReadRequest ==
    /\ call.fn = "codec" /\ call.stage = "sent"
    /\ call' = [fn |-> "codec", stage |-> "read",
                filename |-> call.filename, file_content |-> call.file_content,
                stream |-> call.stream, got |-> read_request(call.stream)]
    /\ UNCHANGED serverVars

MaxText == 3

\* characters of texts: "a", space, newline, carriage return, U+00A0
\* (no-break space) and U+20AC
TextChars == {97, 32, 10, 13, 160, 8364}

\* "Single line file." and "Line1\nLine2\n" (test_server.py lines 16-17)
SingleLineFile ==
    <<83, 105, 110, 103, 108, 101, 32, 108, 105, 110, 101, 32, 102, 105, 108,
      101, 46>>

TwoLines == <<76, 105, 110, 101, 49, 10, 76, 105, 110, 101, 50, 10>>

\* the analysis of an uploaded content (handler.py lines 56-57)
AnalyzeCalls ==
    [fn : {"analyze"}, stage : {"called"},
     content : {Utf8Encode(t) : t \in SeqsUpTo(TextChars, MaxText)}
                 \cup {SingleLineFile, TwoLines, <<97, 255, 10>>}]

\* the content is decoded and analyze_text is called on the text; on the
\* same text, the counts of FileAnalyzer._analyze_single
CallAnalyze ==
    /\ call.fn = "analyze" /\ call.stage = "called"
    /\ \E text \in {Utf8DecodeReplace(call.content)} :
         call' = [fn |-> "analyze", stage |-> "returned",
                  content |-> call.content, text |-> text,
                  result |-> analyze_text(text),
                  single |-> analyze_single(text)]
    /\ UNCHANGED serverVars

\* two uploads with the same file name, saved one after the other with the
\* clock at first and at second (handler.py lines 51-54)
StoreCalls ==
    [fn : {"store"}, stage : {"called"},
     filename : SeqsUpTo(NameChars, MaxName),
     first : 0..MaxTime, second : 0..MaxTime]

\* the handler at its save step with a decoded request
AtSave(h, name, content) ==
    [h EXCEPT !.pc = "save", !.filename = name, !.file_content = content]

\* the first upload has content "a", the second "b"
CallStore ==
    /\ call.fn = "store" /\ call.stage = "called"
    /\ \E h1 \in {SaveUpload(AtSave(Load(1), call.filename, <<97>>),
                              call.first, TRUE)} :
       \E h2 \in {SaveUpload(AtSave(h1, call.filename, <<98>>),
                              call.second, TRUE)} :
         call' = [fn |-> "store", stage |-> "returned",
                  filename |-> call.filename,
                  first |-> call.first, second |-> call.second,
                  rejected |-> <<h1.pc = "except_other", h2.pc = "except_other">>,
                  paths |-> <<h1.saved_path, h2.saved_path>>,
                  files |-> h2.files]
    /\ UNCHANGED serverVars

InitCalls == ServerInit /\ call \in CodecCalls \cup AnalyzeCalls \cup StoreCalls

NextCalls ==
    \/ CallSendRequest
    \/ CallReadRequest
    \/ CallAnalyze
    \/ CallStore

SpecCalls == InitCalls /\ [][NextCalls]_vars

\* ------------------------------------------------------ client.send_file
\* One call of send_file(host, port, filepath); call holds the position and
\* the locals of the coroutine and what it has done: log (the messages of
\* logger.error), attempts (calls of open_connection), opened (connections
\* opened), wire (bytes written to the connection), reply (what the server
\* wrote on the connection), printed (the response printed) and closed
\* (calls of writer.close()).
FilePaths == {NameA, <<100, 47>> \o NameA}

\* os.path.basename
basename(p) == Drop(p, RFind(p, Sep))

\* the limit of the client's reader.read(4096)
ReadLimit == 4096

\* "File " and " does not exist."
LitFile == <<70, 105, 108, 101, 32>>

LitDoesNotExist ==
    <<32, 100, 111, 101, 115, 32, 110, 111, 116, 32, 101, 120, 105, 115, 116, 46>>

\* "Could not connect to server "
LitCouldNotConnect ==
    <<67, 111, 117, 108, 100, 32, 110, 111, 116, 32, 99, 111, 110, 110, 101, 99,
      116, 32, 116, 111, 32, 115, 101, 114, 118, 101, 114, 32>>

\* "Error during communication: "
LitErrorDuring ==
    <<69, 114, 114, 111, 114, 32, 100, 117, 114, 105, 110, 103, 32, 99, 111, 109,
      109, 117, 110, 105, 99, 97, 116, 105, 111, 110, 58, 32>>

\* f"{host}:{port}: {e}" of the failed connection
RefusedAt ==
    <<49, 50, 55, 46, 48, 46, 48, 46, 49, 58, 53, 48, 48, 48, 48, 58, 32, 67,
      111, 110, 110, 101, 99, 116, 105, 111, 110, 82, 101, 102, 117, 115, 101,
      100, 69, 114, 114, 111, 114>>

SendFileCalls ==
    [fn : {"send_file"}, pc : {"start"}, filepath : FilePaths,
     exists : BOOLEAN, content : SeqsUpTo(ContentBytes, MaxContent),
     filename : {<<>>}, log : {<<>>}, attempts : {0}, opened : {0},
     wire : {<<>>}, reply : {<<>>}, printed : {<<>>}, closed : {0}]

\* variant: a missing file is logged and the call goes on
CheckFile_GoesOn(s) ==
    [s EXCEPT !.log = IF s.exists THEN @
                      ELSE Append(@, LitFile \o s.filepath \o LitDoesNotExist),
              !.filename = basename(s.filepath), !.pc = "connect"]

\* send_file lines 33-39: the check of the file, then its name and content
CheckFile(s) ==
    IF ~s.exists
    THEN [s EXCEPT !.log = Append(@, LitFile \o s.filepath \o LitDoesNotExist),
                   !.pc = "returned"]
    ELSE [s EXCEPT !.filename = basename(s.filepath), !.pc = "connect"]

\* send_file lines 41-45: open_connection succeeds or raises
OpenConnection(s, ok) ==
    IF ok
    THEN [s EXCEPT !.attempts = @ + 1, !.opened = @ + 1, !.pc = "send"]
    ELSE [s EXCEPT !.attempts = @ + 1,
                   !.log = Append(@, LitCouldNotConnect \o RefusedAt),
                   !.pc = "returned"]

\* variant: an error while sending makes send_file return at once
SendFrame_Returns(s, ok) ==
    [s EXCEPT !.wire = @ \o send_request(s.filename, s.content),
              !.log = IF ok THEN @
                      ELSE Append(@, LitErrorDuring \o ConnectionLostMsg),
              !.pc = IF ok THEN "receive" ELSE "returned"]

\* send_file lines 47-48 and 55-56: send_request writes the frame; its
\* drain returns or raises
SendFrame(s, ok) ==
    IF ok
    THEN [s EXCEPT !.wire = @ \o send_request(s.filename, s.content),
                   !.pc = "receive"]
    ELSE [s EXCEPT !.wire = @ \o send_request(s.filename, s.content),
                   !.log = Append(@, LitErrorDuring \o ConnectionLostMsg),
                   !.pc = "close"]

\* send_file lines 51-56: one reader.read(4096) returned data, which is
\* decoded and printed
ReceiveResponse(s, data) ==
    IF Utf8Valid(data)
    THEN [s EXCEPT !.printed = Utf8Decode(data), !.pc = "close"]
    ELSE [s EXCEPT !.log = Append(@, LitErrorDuring \o UnicodeErrorMsg),
                   !.pc = "close"]

\* send_file lines 58-61: writer.close() and wait_closed(), which returns
\* or raises
CloseConnection(s, ok) ==
    [s EXCEPT !.closed = @ + 1, !.pc = IF ok THEN "returned" ELSE "raised"]

\* what the server may have written on the connection of a well-formed
\* upload: its response, an error response, or nothing
Replies(s) ==
    {Response(s.filename, analyze_text(Utf8DecodeReplace(s.content))),
     ErrorResponse(ConnectionLostMsg), <<>>}

\* what one reader.read(4096) may return of reply: the bytes that have
\* arrived, at least one and at most 4096, or b"" at the end of the stream
Reads(reply) ==
    IF reply = <<>> THEN {<<>>}
    ELSE {Take(reply, k) : k \in 1..Min(Len(reply), ReadLimit)}

SendFileCheck ==
    /\ call.fn = "send_file" /\ call.pc = "start"
    /\ call' = CheckFile(call)
    /\ UNCHANGED serverVars

SendFileConnect ==
    /\ call.fn = "send_file" /\ call.pc = "connect"
    /\ \E ok \in BOOLEAN : call' = OpenConnection(call, ok)
    /\ UNCHANGED serverVars

SendFileSend ==
    /\ call.fn = "send_file" /\ call.pc = "send"
    /\ \E ok \in BOOLEAN : call' = SendFrame(call, ok)
    /\ UNCHANGED serverVars

SendFileReceive ==
    /\ call.fn = "send_file" /\ call.pc = "receive"
    /\ \E reply \in Replies(call) : \E data \in Reads(reply) :
         call' = [ReceiveResponse(call, data) EXCEPT !.reply = reply]
    /\ UNCHANGED serverVars

SendFileClose ==
    /\ call.fn = "send_file" /\ call.pc = "close"
    /\ \E ok \in BOOLEAN : call' = CloseConnection(call, ok)
    /\ UNCHANGED serverVars

InitClient == ServerInit /\ call \in SendFileCalls

NextClient ==
    \/ SendFileCheck
    \/ SendFileConnect
    \/ SendFileSend
    \/ SendFileReceive
    \/ SendFileClose

SpecClient == InitClient /\ [][NextClient]_vars

\* ------------------------------------------------- src/2: FileAnalyzer
\* One run of FileAnalyzer(file_paths, max_concurrent).analyze_all(), held
\* in call: task[t] is where the coroutine _analyze_single of file_paths[t]
\* stands ("acquire", "open", "read", "analyze", "done"), value the
\* semaphore's counter, locked the state of the totals lock, ret[t] what the
\* task returned (<<>> for None, <<result>> for a FileAnalysis), main where
\* analyze_all stands.
MaxTasks == 3

MaxPermits == 2

\* "File not found: "
LitFileNotFound ==
    <<70, 105, 108, 101, 32, 110, 111, 116, 32, 102, 111, 117, 110,
      100, 58, 32>>

\* "Error reading file "
LitErrorReading ==
    <<69, 114, 114, 111, 114, 32, 114, 101, 97, 100, 105, 110, 103,
      32, 102, 105, 108, 101, 32>>

\* "b.txt"
PathB ==
    <<98, 46, 116, 120, 116>>

\* "nonexistent_file.txt"
PathMissing ==
    <<110, 111, 110, 101, 120, 105, 115, 116, 101, 110, 116, 95, 102,
      105, 108, 101, 46, 116, 120, 116>>

\* "u.bin"
PathBinary ==
    <<117, 46, 98, 105, 110>>

\* the files of a run: two text files, a path that does not exist and a file
\* that cannot be read as UTF-8 text
Files ==
    {[path |-> <<100, 47>> \o NameA, kind |-> "ok", content |-> ContentA],
     [path |-> PathB, kind |-> "ok", content |-> ContentB],
     [path |-> PathMissing, kind |-> "missing", content |-> <<>>],
     [path |-> PathBinary, kind |-> "unreadable", content |-> <<>>]}

\* FileAnalyzer.__init__ and the tasks analyze_all creates
NewAnalyzer(file_paths, max_concurrent) ==
    [fn |-> "analyze_all",
     file_paths |-> file_paths,
     max_concurrent |-> max_concurrent,
     value |-> max_concurrent,
     locked |-> FALSE,
     total_words |-> 0,
     total_chars |-> 0,
     results |-> <<>>,
     task |-> [t \in 1..Len(file_paths) |-> "acquire"],
     content |-> [t \in 1..Len(file_paths) |-> <<>>],
     ret |-> [t \in 1..Len(file_paths) |-> <<>>],
     log |-> <<>>,
     main |-> "gather",
     successful |-> <<>>]

AnalyzerRuns ==
    {NewAnalyzer(fp, m) : fp \in UNION {[1..n -> Files] : n \in 1..MaxTasks},
                          m \in 1..MaxPermits}

\* variant: the semaphore lets every task in
CanEnter_Always(s) == TRUE

\* asyncio.Semaphore.acquire returns when the counter is positive
CanEnter(s) == s.value > 0

\* async with self.semaphore, entry: the counter goes down
SemAcquire(s, t) == [s EXCEPT !.value = @ - 1, !.task[t] = "open"]

\* async with self.semaphore, exit: the counter goes up
SemRelease(s) == [s EXCEPT !.value = @ + 1]

\* async with self.lock, entry and exit
LockAcquire(s) == [s EXCEPT !.locked = TRUE]

LockRelease(s) == [s EXCEPT !.locked = FALSE]

\* lines 64-69: an except clause logs and returns None, which leaves the
\* semaphore
ReturnNone(s, t, msg) ==
    [SemRelease(s) EXCEPT !.log = Append(@, msg), !.task[t] = "done"]

\* variant: a missing file is counted as an empty file
OpenFile_CountsEmpty(s, t) ==
    IF s.file_paths[t].kind = "missing"
    THEN [SemRelease(s) EXCEPT
              !.results = Append(@, [file_name |-> basename(s.file_paths[t].path),
                                     word_count |-> 0, char_count |-> 0]),
              !.task[t] = "done"]
    ELSE [s EXCEPT !.task[t] = "read"]

\* line 62: aiofiles.open returns the file or raises FileNotFoundError
OpenFile(s, t) ==
    IF s.file_paths[t].kind = "missing"
    THEN ReturnNone(s, t, LitFileNotFound \o s.file_paths[t].path)
    ELSE [s EXCEPT !.task[t] = "read"]

\* variant: a task whose read fails returns inside the semaphore
ReadFile_KeepsPermit(s, t) ==
    IF s.file_paths[t].kind = "unreadable"
    THEN [s EXCEPT !.log = Append(@, LitErrorReading \o s.file_paths[t].path),
                   !.task[t] = "done"]
    ELSE [s EXCEPT !.content[t] = s.file_paths[t].content,
                   !.task[t] = "analyze"]

\* line 63: f.read() returns the text or raises (UnicodeDecodeError, OSError)
ReadFile(s, t) ==
    IF s.file_paths[t].kind = "unreadable"
    THEN ReturnNone(s, t, LitErrorReading \o s.file_paths[t].path)
    ELSE [s EXCEPT !.content[t] = s.file_paths[t].content,
                   !.task[t] = "analyze"]

\* variant: the totals are set to the counts of the last file
AddTo_Overwrite(total, count) == count

\* total += count
AddTo(total, count) == total + count

\* lines 71-91, which have no suspending await: the counts, the result, the
\* totals under the lock, the return out of the semaphore
UpdateTotals(s, t) ==
    LET a == analyze_single(s.content[t])
        result == [file_name |-> basename(s.file_paths[t].path),
                   word_count |-> a.word_count, char_count |-> a.char_count]
    IN  SemRelease(LockRelease(
            [LockAcquire(s) EXCEPT
                 !.total_words = AddTo(@, a.word_count),
                 !.total_chars = AddTo(@, a.char_count),
                 !.results = Append(@, result),
                 !.ret[t] = <<result>>,
                 !.task[t] = "done"]))

\* the results of the tasks 1..n that are not None, in the order of the tasks
RECURSIVE NotNone(_, _)
NotNone(ret, n) == IF n = 0 THEN <<>> ELSE NotNone(ret, n - 1) \o ret[n]

\* analyze_all lines 101-103, once gather has every task's result
Gather(s) ==
    [s EXCEPT !.successful = NotNone(s.ret, Len(s.ret)), !.main = "returned"]

Tasks == 1..Len(call.task)

TaskAcquire(t) ==
    /\ call.task[t] = "acquire" /\ CanEnter(call)
    /\ call' = SemAcquire(call, t)
    /\ UNCHANGED serverVars

TaskOpen(t) ==
    /\ call.task[t] = "open"
    /\ call' = OpenFile(call, t)
    /\ UNCHANGED serverVars

TaskRead(t) ==
    /\ call.task[t] = "read"
    /\ call' = ReadFile(call, t)
    /\ UNCHANGED serverVars

TaskUpdate(t) ==
    /\ call.task[t] = "analyze" /\ ~call.locked
    /\ call' = UpdateTotals(call, t)
    /\ UNCHANGED serverVars

GatherDone ==
    /\ call.main = "gather"
    /\ \A t \in Tasks : call.task[t] = "done"
    /\ call' = Gather(call)
    /\ UNCHANGED serverVars

InitAnalyzer == ServerInit /\ call \in AnalyzerRuns

NextAnalyzer ==
    \/ \E t \in Tasks : TaskAcquire(t)
    \/ \E t \in Tasks : TaskOpen(t)
    \/ \E t \in Tasks : TaskRead(t)
    \/ \E t \in Tasks : TaskUpdate(t)
    \/ GatherDone

SpecAnalyzer == InitAnalyzer /\ [][NextAnalyzer]_vars

\* The event loop runs every task that is ready.
AnalyzerFairness ==
    /\ \A t \in 1..MaxTasks :
         /\ WF_vars(t \in Tasks /\ TaskAcquire(t))
         /\ WF_vars(t \in Tasks /\ TaskOpen(t))
         /\ WF_vars(t \in Tasks /\ TaskRead(t))
         /\ WF_vars(t \in Tasks /\ TaskUpdate(t))
    /\ WF_vars(GatherDone)

SpecAnalyzerFair == InitAnalyzer /\ [][NextAnalyzer]_vars /\ AnalyzerFairness

\* ------------------------------------------------- src/1: TextSearcher
\* The texts and the search words of the calls of count_words: A, a, S, s,
\* the letter sharp s (U+00DF) and, in texts, the space.
MaxWord == 2

WordAlphabet == {65, 97, 83, 115, 223}

SearchAlphabet == WordAlphabet \cup {32}

\* str.lower() of one character: the ASCII capitals map to their small
\* letters; sharp s is a small letter already
LowerChar(c) == IF c \in 65..90 THEN c + 32 ELSE c

\* str.lower()
lower(text) == [i \in 1..Len(text) |-> LowerChar(text[i])]

\* the characters \w matches: letters, digits and the underscore
IsWordChar(c) ==
    c \in (65..90) \cup (97..122) \cup (48..57) \cup {95, 223}

\* re.findall(r'\w+', text): the maximal runs of word characters
RECURSIVE findall(_)
findall(text) ==
    IF Len(text) = 0 THEN <<>>
    ELSE IF ~IsWordChar(text[1]) THEN findall(Drop(text, 1))
    ELSE LET n == CHOOSE k \in 1..Len(text) :
                     /\ \A i \in 1..k : IsWordChar(text[i])
                     /\ k = Len(text) \/ ~IsWordChar(text[k + 1])
         IN  <<Take(text, n)>> \o findall(Drop(text, n))

\* TextSearcher(text).count_words(search_word)
count_words(text, search_word) ==
    LET words == findall(lower(text))
    IN  [total_words |-> Len(words),
         word_count |-> Card({i \in 1..Len(words) : words[i] = lower(search_word)}),
         search_word |-> search_word]

SearchCalls ==
    [fn : {"count_words"}, stage : {"called"},
     text : SeqsUpTo(SearchAlphabet, MaxText),
     search_word : SeqsUpTo(WordAlphabet, MaxWord) \ {<<>>}]

CallCountWords ==
    /\ call.fn = "count_words" /\ call.stage = "called"
    /\ call' = [fn |-> "count_words", stage |-> "returned",
                text |-> call.text, search_word |-> call.search_word,
                result |-> count_words(call.text, call.search_word)]
    /\ UNCHANGED serverVars

InitSearch == ServerInit /\ call \in SearchCalls

NextSearch == CallCountWords

SpecSearch == InitSearch /\ [][NextSearch]_vars

\* =================================================================== claims
Did(c, step) == \E i \in 1..Len(hist[c]) : hist[c][i] = step

Count(c, step) == Card({i \in 1..Len(hist[c]) : hist[c][i] = step})

Ended(c) == pc[c] \in {"done", "crashed"}

Made == {c \in Conns : cl[c] # "none"}

\* the handler of c went through its whole try block and wait_closed
Succeeded(c) == pc[c] = "done" /\ outcome[c] = "success"

\* what the Analyzer yields on the content the peer of c uploads
ExpectedCounts(c) == analyze_text(Utf8DecodeReplace(Scripts[script[c]].content))

ResultLines == SplitLines(resultFile)

\* line is a whole result line "<name>: lines=L, words=W, characters=C\n"
\* with the given counts, whatever its name
IsResultLine(line, cnt) ==
    \E k \in 0..Len(line) : line = FormatResultLine(Take(line, k), cnt)

\* the name under which the handler of c stored its upload
StoredName(c) == Drop(saved_path[c], Len(UploadDir) + 1)

Bijections(S, T) ==
    {f \in [S -> T] : /\ \A x, y \in S : x # y => f[x] # f[y]
                      /\ \A t \in T : \E x \in S : f[x] = t}

\* C1: once every connection made so far (N >= 1 of them, handled
\* concurrently, finishing in any order) has been handled successfully, the
\* result file holds exactly N lines, and the lines are, one for one, the
\* whole result lines of the N handlers.
C1_OneLinePerUpload ==
    (Made # {} /\ \A c \in Made : Succeeded(c)) =>
        /\ Len(ResultLines) = Card(Made)
        /\ \E f \in Bijections(Made, 1..Len(ResultLines)) :
             \A c \in Made : IsResultLine(ResultLines[f[c]], ExpectedCounts(c))

\* C1 witness: all connections handled successfully, with the second
\* connection's line appended before the first one's.
C1_Witness ==
    /\ Made = Conns /\ Card(Conns) >= 2
    /\ \A c \in Conns : Succeeded(c)
    /\ script[1] = "valid" /\ script[2] = "valid2"
    /\ Len(ResultLines) = Card(Conns)
    /\ IsResultLine(ResultLines[1], ExpectedCounts(2))

\* a well-formed upload handled without a reset or an I/O failure
Undisturbed(d) == script[d] \in WellformedIds /\ d \notin Faulty

\* C2: a connection whose peer sent an incomplete or garbage frame and
\* closed contributes no stored file and no result line, and a well-formed
\* upload on a connection accepted after it succeeds; if these two are the
\* only connections, exactly one stored file and exactly one result line
\* exist afterwards.
C2_ContinuesAfterError ==
    \A c \in Conns :
        (script[c] \in EofIds /\ Ended(c)) =>
            /\ ~Did(c, "Saved") /\ ~Did(c, "Appended")
            /\ \A d \in Conns :
                 (c \in before[d] /\ Undisturbed(d) /\ Ended(d)) =>
                     /\ Succeeded(d)
                     /\ (Made = {c, d} =>
                            /\ Card(files) = 1
                            /\ Len(ResultLines) = 1)

\* C2 witness: b"trash" was sent and closed, its handler ended, then a valid
\* upload was accepted and succeeded.
C2_Witness ==
    \E c, d \in Conns :
        /\ script[c] = "trash" /\ Ended(c) /\ Did(c, "IncompleteRead")
        /\ c \in before[d] /\ script[d] = "valid" /\ Succeeded(d)
        /\ Made = {c, d}
        /\ Card(files) = 1 /\ Len(ResultLines) = 1

\* C3 (as claimed): no failure raised at any step of handle_client leaves
\* handle_client.
C3_NothingPropagates == \A c \in Conns : pc[c] # "crashed"

\* the handler failed to decode a request
DecodeFailed(c) == Did(c, "Errored") /\ ~Did(c, "Read")

\* C4: a handler that completed the success path made exactly one upload
\* write and at most one result append; a handler whose decoding failed
\* made none of either.
C4_SideEffects ==
    \A c \in Conns :
        /\ outcome[c] = "success" =>
              Count(c, "Saved") = 1 /\ Count(c, "Appended") <= 1
        /\ DecodeFailed(c) =>
              Count(c, "Saved") = 0 /\ Count(c, "Appended") = 0

\* C4 witness: one handler completed the success path and another one's
\* decoding failed.
C4_Witness ==
    \E c, d \in Conns :
        /\ Succeeded(c) /\ Count(c, "Saved") = 1 /\ Count(c, "Appended") = 1
        /\ DecodeFailed(d) /\ Ended(d)

\* C5 (as claimed): the handler never enters a read of a field whose
\* declared length is beyond any acceptable maximum (here 2^24 and more).
C5_NoOversizedRead ==
    \A c \in Conns :
        /\ pc[c] = "read_content" => content_len[c] < Huge
        /\ pc[c] = "read_name" => name_len[c] < Huge

\* C6: a handler whose read hit the end of the stream before a frame
\* boundary decoded no request and stored nothing; it went to Errored, made
\* exactly one write, of a response beginning with "Server error: ", and
\* closed its writer, also when that write failed.
C6_IncompleteFrame ==
    \A c \in Conns :
        Did(c, "IncompleteRead") =>
            /\ ~Did(c, "Read") /\ ~Did(c, "Saved") /\ ~Did(c, "Appended")
            /\ Did(c, "Errored")
            /\ Len(written[c]) = 1
            /\ IsPrefix(LitServerError, written[c][1])
            /\ closed[c] /\ Did(c, "Closed")
            /\ pc[c] \in {"wait_closed", "done", "crashed"}

\* C6 witness: the stream of a peer ended inside the frame, the error
\* response could not be flushed, and the handler closed its writer.
C6_Witness ==
    \E c \in Conns :
        /\ script[c] = "cut_clen"
        /\ Did(c, "IncompleteRead") /\ Did(c, "DrainFailed")
        /\ IsPrefix(LitServerError, written[c][1])
        /\ closed[c]

\* C7 (as claimed): every handle_client that stopped has closed its writer.
C7_ClosedOnEveryExit == \A c \in Conns : Ended(c) => closed[c]

\* the position of the first occurrence of step in the history of c
Pos(c, step) ==
    CHOOSE i \in 1..Len(hist[c]) :
        hist[c][i] = step /\ \A j \in 1..(i - 1) : hist[c][j] # step

\* step a was completed by c before step b, when b was completed at all
Precedes(c, a, b) == Did(c, b) => (Did(c, a) /\ Pos(c, a) < Pos(c, b))

\* C8 (as claimed): the steps occur in the order Reading, Analyzing,
\* Persisting(Upload), Persisting(Result), Responding, Closed.
C8_ClaimedOrder ==
    \A c \in Conns :
        /\ Precedes(c, "Read", "Analyzed")
        /\ Precedes(c, "Analyzed", "Saved")
        /\ Precedes(c, "Saved", "Appended")
        /\ Precedes(c, "Appended", "Responded")
        /\ Precedes(c, "Saved", "Responded")
        /\ (Did(c, "Responded") /\ Did(c, "Closed")
               => Pos(c, "Responded") < Pos(c, "Closed"))

\* C8 (amended): the steps occur in the order Reading, Persisting(Upload),
\* Analyzing, Persisting(Result), Responding, Closed: the frame is read
\* fully before the upload is written, the upload is written before the
\* analysis, the analysis completes before the result line is appended, and
\* both persistence steps complete before the response is written.
C8_StepOrder ==
    \A c \in Conns :
        /\ Precedes(c, "Read", "Saved")
        /\ Precedes(c, "Saved", "Analyzed")
        /\ Precedes(c, "Analyzed", "Appended")
        /\ Precedes(c, "Appended", "Responded")
        /\ Precedes(c, "Saved", "Responded")
        /\ (Did(c, "Responded") /\ Did(c, "Closed")
               => Pos(c, "Responded") < Pos(c, "Closed"))
        /\ \A st \in {"Read", "Saved", "Analyzed", "Appended", "Responded",
                      "Closed"} : Count(c, st) <= 1

\* C8 witness: a handler that went through all six steps
C8_Witness ==
    \E c \in Conns :
        hist[c] = <<"Accepted", "Read", "Saved", "Analyzed", "Appended",
                    "Responded", "Processed", "Closed">>

\* C9 (as claimed): the result line of every upload that was appended names
\* the stored file name under which that upload was written.
C9_LineNamesStoredFile ==
    \A c \in Conns :
        Did(c, "Appended") =>
            \E i \in 1..Len(ResultLines) :
                ResultLines[i] = FormatResultLine(StoredName(c), counts[c])

\* "File name: <filename>\nLines: <L>, Words: <W>, Chars: <C>\n" with the file
\* name the peer of c sent and the Analyzer's counts of the content it sent
ExpectedResponse(c) ==
    LitFileName \o Scripts[script[c]].filename
        \o LitRespLines \o Digits(ExpectedCounts(c).lines)
        \o LitRespWords \o Digits(ExpectedCounts(c).words)
        \o LitRespChars \o Digits(ExpectedCounts(c).chars) \o <<NL>>

\* C10: for every upload whose handler completed the success path, the
\* handler wrote exactly the response naming the client-supplied file name
\* with the Analyzer's counts of the uploaded content, and a line of the
\* result file carries the same counts.
C10_CountsAgree ==
    \A c \in Conns :
        outcome[c] = "success" =>
            /\ written[c] = <<ExpectedResponse(c)>>
            /\ \E i \in 1..Len(ResultLines) :
                 IsResultLine(ResultLines[i], ExpectedCounts(c))

\* C10 witness: "a b\nc" was uploaded as a.txt and answered with
\* lines 2, words 3, chars 5
C10_Witness ==
    \E c \in Conns :
        /\ Succeeded(c) /\ script[c] = "valid"
        /\ counts[c] = [lines |-> 2, words |-> 3, chars |-> 5]
        /\ sent[c] = LitFileName \o NameA \o LitRespLines \o <<50>>
                        \o LitRespWords \o <<51>> \o LitRespChars \o <<53, NL>>
        /\ \E i \in 1..Len(ResultLines) :
             IsResultLine(ResultLines[i], [lines |-> 2, words |-> 3, chars |-> 5])

\* the handler of c decoded a request and then had an open() or write fail
StorageFailed(c) == Did(c, "Read") /\ outcome[c] = "unexpected"

\* C11 (as claimed): a handler whose upload write or result append failed
\* after a successful decode wrote an error response to its client and
\* closed its writer.
C11_StorageErrorAnswered ==
    \A c \in Conns :
        StorageFailed(c) =>
            /\ Len(written[c]) >= 1
            /\ IsPrefix(LitServerError, written[c][Len(written[c])])
            /\ closed[c]

\* the upload of c was saved and analyzed, and the result append failed
AppendFailed(c) == StorageFailed(c) /\ Did(c, "Analyzed") /\ ~Did(c, "Appended")

\* C12 (as claimed): a handler whose result append failed after the upload
\* was saved and analyzed still wrote the success response, with the file
\* name and the counts it had computed.
C12_ResponseSurvivesAppendFailure ==
    \A c \in Conns :
        AppendFailed(c) =>
            \E i \in 1..Len(written[c]) :
                written[c][i] = ExpectedResponse(c)

\* C13: for every file name and every content, read_request fed with all
\* the bytes send_request wrote returns exactly that file name and that
\* content and leaves nothing unread; the name_len it decoded is the number
\* of UTF-8 bytes of the file name and the content_len the number of bytes
\* of the content.
C13_RoundTrip ==
    (call.fn = "codec" /\ call.stage = "read") =>
        /\ ~call.got.raised
        /\ call.got.filename = call.filename
        /\ call.got.content = call.file_content
        /\ call.got.unread = <<>>
        /\ call.got.name_len = Len(Utf8Encode(call.filename))
        /\ call.got.content_len = Len(call.file_content)

\* C13 witness: the name U+20AC "/" (4 bytes) with a content that is not
\* UTF-8 went through the codec
C13_Witness ==
    /\ call.fn = "codec" /\ call.stage = "read"
    /\ call.filename = <<8364, 47>>
    /\ call.file_content = <<255, 10>>
    /\ call.stream = <<0, 0, 0, 4, 226, 130, 172, 47,
                       0, 0, 0, 0, 0, 0, 0, 2, 255, 10>>
    /\ call.got.filename = <<8364, 47>>
    /\ call.got.name_len = 4

\* analyze_text has returned from a call on text
Analyzed(text) == call.fn = "analyze" /\ call.stage = "returned" /\ call.text = text

\* the newline characters of a text
Newlines(text) == {i \in 1..Len(text) : text[i] = NL}

\* C14: for every text, analyze_text returns as lines the number of newline
\* characters, plus one exactly when the text is not empty and does not end
\* with a newline; for the empty text it returns lines 0, words 0, chars 0.
C14_Lines ==
    (call.fn = "analyze" /\ call.stage = "returned") =>
        /\ call.result.lines =
              Card(Newlines(call.text))
              + (IF call.text # <<>> /\ Len(call.text) \notin Newlines(call.text)
                 THEN 1 ELSE 0)
        /\ call.text = <<>> =>
              call.result = [lines |-> 0, words |-> 0, chars |-> 0]

\* C14 witness: "\n\na", two newlines and an unterminated last line, has 3
\* lines
C14_Witness ==
    /\ Analyzed(<<10, 10, 97>>)
    /\ call.result.lines = 3
    /\ call.content = <<10, 10, 97>>

\* the ends of the maximal runs of non-whitespace characters of a text
RunEnds(text) ==
    {i \in 1..Len(text) :
        /\ text[i] \notin Whitespace
        /\ (i = Len(text) \/ text[i + 1] \in Whitespace)}

\* C15: for every text, analyze_text returns as words the number of maximal
\* runs of non-whitespace characters and as chars the number of characters
\* of the decoded text, and FileAnalyzer._analyze_single counts the same
\* words on it.
C15_WordsAndChars ==
    (call.fn = "analyze" /\ call.stage = "returned") =>
        /\ call.result.words = Card(RunEnds(call.text))
        /\ call.result.chars = Len(call.text)
        /\ call.single.word_count = call.result.words

\* C15 witness: U+20AC, no-break space, "a": 6 bytes, 3 characters, 2 words
C15_Witness ==
    /\ Analyzed(<<8364, 160, 97>>)
    /\ Len(call.content) = 6
    /\ call.result.chars = 3
    /\ call.result.words = 2

\* C16: for the content "Single line file." the Analyzer yields lines 1,
\* words 3, chars 17.
C16_SingleLineFile17 ==
    Analyzed(SingleLineFile) =>
        call.result = [lines |-> 1, words |-> 3, chars |-> 17]

\* C16 (as claimed): for the content "Single line file." the Analyzer yields
\* lines 1, words 3, chars 18.
C16_SingleLineFile ==
    Analyzed(SingleLineFile) =>
        call.result = [lines |-> 1, words |-> 3, chars |-> 18]

\* C16 witness: "Single line file." was analyzed
C16_Witness ==
    /\ Analyzed(SingleLineFile)
    /\ call.content = SingleLineFile
    /\ call.result.chars = Len(SingleLineFile)

\* C17 (as claimed): whatever the client-supplied file name, an upload that
\* is not rejected is written to a file directly inside the upload
\* directory.
C17_StoredInsideUploadDir ==
    (call.fn = "store" /\ call.stage = "returned") =>
        \A f \in call.files :
            /\ dirname(f.path) = UploadDir
            /\ IsPrefix(UploadDir \o <<Sep>>, f.path)

\* C18: two uploads with the same file name saved at different millisecond
\* timestamps are stored under two distinct names, each of the form
\* "<base>_<timestamp><ext>" (base and ext being the file name split at its
\* extension), and both stored files keep their own content.
C18_DistinctStoredNames ==
    (/\ call.fn = "store" /\ call.stage = "returned"
     /\ call.first # call.second
     /\ call.rejected = <<FALSE, FALSE>>) =>
        LET parts == splitext(call.filename)
            name(t) == parts.base \o <<95>> \o Digits(t) \o parts.ext
        IN  /\ call.paths[1] # call.paths[2]
            /\ call.paths[1] = join(UploadDir, name(call.first))
            /\ call.paths[2] = join(UploadDir, name(call.second))
            /\ call.files = {[path |-> call.paths[1], content |-> <<97>>],
                             [path |-> call.paths[2], content |-> <<98>>]}

\* C18 witness: "a." uploaded at 0 and at 1 is stored as uploads/a_0. and
\* uploads/a_1.
C18_Witness ==
    /\ call.fn = "store" /\ call.stage = "returned"
    /\ call.filename = <<97, 46>>
    /\ call.first = 0 /\ call.second = 1
    /\ call.paths = <<UploadDir \o <<Sep, 97, 95, 48, 46>>,
                      UploadDir \o <<Sep, 97, 95, 49, 46>>>>
    /\ Card(call.files) = 2

\* sub occurs in s
Contains(sub, s) ==
    \E i \in 0..(Len(s) - Len(sub)) : SubSeq(s, i + 1, i + Len(sub)) = sub

\* C19: a call of send_file on a file that does not exist logs one error
\* containing "does not exist" and returns without calling open_connection
\* and without writing a byte; a call whose open_connection failed returns
\* without writing a byte, and no call calls open_connection twice.
C19_NoContactOnLocalError ==
    call.fn = "send_file" =>
        /\ (~call.exists /\ call.pc # "start") =>
              /\ call.pc = "returned"
              /\ Len(call.log) = 1
              /\ Contains(<<100, 111, 101, 115, 32, 110, 111, 116, 32, 101, 120,
                            105, 115, 116>>, call.log[1])
              /\ call.attempts = 0 /\ call.opened = 0 /\ call.wire = <<>>
        /\ call.attempts > call.opened =>
              /\ call.pc = "returned"
              /\ call.wire = <<>> /\ call.closed = 0
        /\ call.attempts <= 1

\* C19 witness: send_file returned from a call on a missing file
C19_Witness ==
    /\ call.fn = "send_file" /\ ~call.exists /\ call.pc = "returned"
    /\ call.filepath = NameA
    /\ call.log = <<LitFile \o NameA \o LitDoesNotExist>>
    /\ call.attempts = 0

\* the peer of c follows the protocol and its whole frame has arrived
FrameSent(c) ==
    cl[c] = "open" /\ script[c] \in WellformedIds /\ Len(left[c]) = 0

\* the handler of d is suspended in a readexactly and its peer, which has
\* sent a part of its frame, is not sending the rest
Stalled(d) ==
    /\ pc[d] \in ReadPoints /\ cl[d] = "open" /\ ~lost[d]
    /\ Len(Scripts[script[d]].bytes) > Len(left[d]) /\ Len(left[d]) > 0

\* the handler of c went through all its steps, wrote its response and
\* returned from wait_closed
Answered(c) ==
    /\ Succeeded(c) /\ closed[c]
    /\ hist[c] = <<"Accepted", "Read", "Saved", "Analyzed", "Appended",
                  "Responded", "Processed", "Closed">>
    /\ sent[c] = ExpectedResponse(c)

\* C20: whenever the whole well-formed frame of a connection has arrived
\* while the handler of another connection is suspended in a read on a
\* frame its peer has stopped sending, the first connection's handler
\* eventually ends, whether or not the other peer ever sends again; and
\* unless its own connection was reset or its own open() failed, it ends
\* having gone through all its steps with its response sent.
C20_NoBlocking ==
    \A c \in Conns : \A d \in Conns \ {c} :
        (FrameSent(c) /\ Stalled(d))
            ~> (Ended(c) /\ (c \in Faulty \/ Answered(c)))

\* C20 witness: connection 1 was made and accepted first and its handler is
\* still suspended mid-frame, and connection 2 has been answered and closed
C20_Witness ==
    /\ Stalled(1) /\ inbuf[1] # <<>>
    /\ Answered(2) /\ 2 \notin Faulty

\* C21: no step of the server changes the result file otherwise than by
\* adding text at its end: the content before the step is a prefix of the
\* content after it.
C21_AppendOnly == [][IsPrefix(resultFile, resultFile')]_vars

\* C21 witness: two handlers have appended their lines, one after the other
C21_Witness ==
    /\ Len(ResultLines) = 2
    /\ \A c \in Conns : Did(c, "Appended") /\ Ended(c)

\* the upload writes performed so far, by all handlers
UploadWrites ==
    UNION {{<<c, i>> : i \in {j \in 1..Len(hist[c]) : hist[c][j] = "Saved"}} :
           c \in Conns}

\* C27: at every state the result file has at most as many lines as upload
\* writes were performed, and a handler that appended its line had written
\* its upload before.
C27_LinesAtMostUploads ==
    /\ Len(ResultLines) <= Card(UploadWrites)
    /\ \A c \in Conns :
         Did(c, "Appended") => Did(c, "Saved") /\ Precedes(c, "Saved", "Appended")

\* C27 witness: a handler wrote its upload, failed to append its line and
\* ended: one upload write and no line
C27_Witness ==
    \E c \in Conns :
        /\ AppendFailed(c) /\ Ended(c)
        /\ \E f \in files : f.path = saved_path[c]
        /\ Card(UploadWrites) = 1 /\ Len(ResultLines) = 0

\* the handler of c wrote a "Server error: ..." response
WroteError(c) ==
    \E i \in 1..Len(written[c]) : IsPrefix(LitServerError, written[c][i])

\* C28 (as claimed): a handler writes at most one response message on its
\* connection, and it writes a "Server error" response only when it has
\* stored no upload and appended no result line.
C28_OneResponse ==
    \A c \in Conns :
        /\ Len(written[c]) <= 1
        /\ WroteError(c) => ~Did(c, "Saved") /\ ~Did(c, "Appended")

\* send_file has received and handled what it read of the server's reply
Received(s) ==
    s.fn = "send_file" /\ s.opened = 1 /\ s.pc \in {"close", "returned", "raised"}
        /\ s.wire # <<>> /\ Len(s.log) = 0

\* C26 (as claimed): what send_file prints is the whole text the server
\* wrote on the connection, however the bytes arrive.
C26_WholeResponse ==
    Received(call) => call.printed = Utf8Decode(call.reply)

\* C29: a call of send_file opens at most one connection and calls close()
\* at most once on it, and a call that has opened a connection has called
\* close() on it when it returns or raises, after a printed response as
\* after an error while sending or receiving.
C29_ClosesWhatItOpened ==
    call.fn = "send_file" =>
        /\ call.opened <= 1 /\ call.closed <= call.opened
        /\ call.pc \in {"returned", "raised"} => call.closed = call.opened

\* C29 witness: send_file returned after an error while sending, with its
\* one connection closed
C29_Witness ==
    /\ call.fn = "send_file" /\ call.pc = "returned"
    /\ call.opened = 1 /\ call.closed = 1
    /\ call.log = <<LitErrorDuring \o ConnectionLostMsg>>
    /\ call.printed = <<>>

\* the tasks of the run whose file can be read
OkTasks == {t \in Tasks : call.file_paths[t].kind = "ok"}

\* what _analyze_single is to return for the file of task t
ExpectedAnalysis(t) ==
    [file_name |-> basename(call.file_paths[t].path),
     word_count |-> SplitLen(call.file_paths[t].content),
     char_count |-> Len(call.file_paths[t].content)]

\* the sum of field over the readable files among the first n
RECURSIVE SumOk(_, _)
SumOk(field, n) ==
    IF n = 0 THEN 0
    ELSE SumOk(field, n - 1)
         + (IF n \in OkTasks THEN ExpectedAnalysis(n)[field] ELSE 0)

\* the tasks inside the section guarded by the semaphore
InsideSemaphore == {t \in Tasks : call.task[t] \in {"open", "read", "analyze"}}

AllDone == \A t \in Tasks : call.task[t] = "done"

\* C22: once every task of a run has finished, total_words and total_chars
\* are the sums of the counts of the files that were read, and results
\* holds the result of each such task exactly once; analyze_all returns
\* these results in the order of the paths.
C22_NoLostUpdate ==
    (call.fn = "analyze_all" /\ AllDone) =>
        /\ call.total_words = SumOk("word_count", Len(call.task))
        /\ call.total_chars = SumOk("char_count", Len(call.task))
        /\ Len(call.results) = Card(OkTasks)
        /\ \A t \in OkTasks :
             Card({i \in 1..Len(call.results) : call.results[i] = ExpectedAnalysis(t)})
                 = Card({u \in OkTasks : ExpectedAnalysis(u) = ExpectedAnalysis(t)})
        /\ call.main = "returned" =>
             /\ Len(call.successful) = Card(OkTasks)
             /\ \A i \in 1..Len(call.successful) :
                  \E t \in OkTasks : call.successful[i] = ExpectedAnalysis(t)

\* C22 witness: three tasks on a.txt, b.txt and a.txt again, two at a time,
\* finished in another order than they were started: 3 + 4 + 3 words and
\* 5 + 8 + 5 characters
C22_Witness ==
    /\ call.fn = "analyze_all" /\ call.main = "returned"
    /\ call.max_concurrent = 2 /\ Len(call.task) = 3
    /\ call.file_paths[1].content = ContentA /\ call.file_paths[2].content = ContentB
    /\ call.file_paths[3].content = ContentA
    /\ call.results[1].file_name = PathB
    /\ call.total_words = 10 /\ call.total_chars = 18
    /\ Len(call.results) = 3

\* C23: a step in which a task whose file is missing or cannot be read
\* finishes leaves total_words, total_chars and results as they were, and
\* the task has returned None.
C23_FailedReadChangesNothing ==
    [][call.fn = "analyze_all" =>
         \A t \in Tasks :
             (call.task[t] # "done" /\ call'.task[t] = "done"
                  /\ call.file_paths[t].kind # "ok") =>
                 /\ call'.ret[t] = <<>>
                 /\ call'.total_words = call.total_words
                 /\ call'.total_chars = call.total_chars
                 /\ call'.results = call.results]_vars

\* C23 witness: after a.txt was counted, the task of the missing file and
\* the task of the unreadable file have returned None, and the totals are
\* those of a.txt
C23_Witness ==
    /\ call.fn = "analyze_all" /\ Len(call.task) = 3 /\ AllDone
    /\ call.file_paths[1].kind = "ok" /\ call.file_paths[1].content = ContentA
    /\ call.file_paths[2].kind = "missing" /\ call.ret[2] = <<>>
    /\ call.file_paths[3].kind = "unreadable" /\ call.ret[3] = <<>>
    /\ call.total_words = 3 /\ call.total_chars = 5 /\ Len(call.results) = 1
    /\ Len(call.log) = 2

\* C24: at every moment at most max_concurrent tasks are inside the section
\* guarded by the semaphore, and the semaphore's counter is the number of
\* free places.
C24_AtMostMaxConcurrent ==
    call.fn = "analyze_all" =>
        /\ Card(InsideSemaphore) <= call.max_concurrent
        /\ call.value = call.max_concurrent - Card(InsideSemaphore)

\* C24 witness: with max_concurrent = 2, two tasks are reading or analyzing
\* and a third waits for the semaphore
C24_Witness ==
    /\ call.fn = "analyze_all" /\ call.max_concurrent = 2
    /\ Card(InsideSemaphore) = 2 /\ call.value = 0
    /\ \E t \in Tasks : call.task[t] = "acquire"

\* every task has finished, analyze_all has returned, the semaphore has all
\* its permits and the lock is free
Finished ==
    /\ call.fn = "analyze_all" /\ AllDone /\ call.main = "returned"
    /\ call.value = call.max_concurrent /\ ~call.locked

\* C30: every run of analyze_all, on any list of files and with any
\* max_concurrent >= 1, comes to the point where every task has finished,
\* analyze_all has returned, all permits are back and the lock is free, and
\* stays there.
C30_Terminates == <>[]Finished

\* C30 witness: a run with one place on an unreadable file, a missing file
\* and a text file has finished with its permit back
C30_Witness ==
    /\ Finished /\ call.max_concurrent = 1 /\ Len(call.task) = 3
    /\ call.file_paths[1].kind = "unreadable"
    /\ call.file_paths[2].kind = "missing"
    /\ call.file_paths[3].kind = "ok"
    /\ Len(call.successful) = 1

\* str.upper() of one character: the upper case of sharp s is "SS"
UpperChar(c) ==
    IF c \in 97..122 THEN <<c - 32>>
    ELSE IF c = 223 THEN <<83, 83>>
    ELSE <<c>>

\* the texts that differ from text only in the case of their letters: each
\* character is kept, or replaced by its lower case or by its upper case
RECURSIVE CaseVariants(_)
CaseVariants(text) ==
    IF Len(text) = 0 THEN {<<>>}
    ELSE {x \o rest : x \in {<<text[1]>>, <<LowerChar(text[1])>>, UpperChar(text[1])},
                      rest \in CaseVariants(Drop(text, 1))}

\* C25 (as claimed): count_words returns the search word as it was passed,
\* and the same total_words and word_count for every case variant of the
\* text and of the search word.
C25_CaseInsensitive ==
    (call.fn = "count_words" /\ call.stage = "returned") =>
        /\ call.result.search_word = call.search_word
        /\ \A u \in CaseVariants(call.text) :
             \A v \in CaseVariants(call.search_word) :
                 /\ count_words(u, v).total_words = call.result.total_words
                 /\ count_words(u, v).word_count = call.result.word_count

====
